---- MODULE Spec2Model ----
(***************************************************************************)
(* click-engine: the image editor's session/version history (optimistic    *)
(* local state reconciled with the backend tables), the history service,   *)
(* the generate-image edge function, the usage dashboard's balance         *)
(* subscription, the App's view gating and the image-URL optimizer.        *)
(***************************************************************************)
EXTENDS Integers, Sequences, FiniteSets, TLC

\* ------------------------------------------------------------------ bounds
\* generations the editor starts in one mount
MaxGen == 2
\* requests the edge function serves
MaxReq == 2
\* the team wallet's balance at the start
StartBalance == 3
\* pieces an image URL is made of
MaxUrlPieces == 3
\* rows of each history table
MaxHistRows == 2
\* handleGenerateRequest invocations
MaxRequests == 2

\* ------------------------------------------------------------------ values
\* null of an id / of an image (useState<string | null>(null))
NULL == <<"null", 0>>
NoImage == <<"none", 0>>
NoUser == [id |-> "none", name |-> ""]
User(id, name) == [id |-> id, name |-> name]

\* the image given to startNewSession: an uploaded or dropped file, which
\* FileReader.readAsDataURL turns into a data: URL
UploadImages == {<<"data", 1>>}
IsHttp(img) == img[1] \in {"http-old", "http-gen", "http-upload"}
IsDataImage(img) == img[1] = "data"
\* the public URL uploadBase64Image returns for a data: URL
StoredCopy(img) == <<"http-upload", img[2]>>
\* the public URL of the image generation k produced
GeneratedUrl(k) == <<"http-gen", k>>

\* what is typed into the prompt input; the empty prompt is what the component
\* starts with and resetEditor restores
Prompts == {" ", "p"}
Trim(p) == IF p = " " THEN "" ELSE p
ModelNames == {"Nano Banana Pro", "Grok 2"}

\* a temporary id is Date.now().toString() taken during generation k; the
\* generations of one editor are separated by network round trips, so the
\* stamps of different generations differ
TempId(k) == <<"tmp", k>>
IsTemp(id) == id[1] = "tmp"
\* ids the backend issues (uuid primary keys)
DbSessionId(n) == <<"session", n>>
DbVersionId(n) == <<"version", n>>

VARIABLES
    \* ImageEditor component state
    uploadedImage, generatedImage, prompt, selectedModel, isGenerating,
    safetyWarning, currentSessionId, sessions,
    \* handleGenerate invocations: closure and position of each
    gens, nextGen,
    \* the loadSessions effect: where it is, what getSessions returned, and
    \* whether one of its two queries failed
    loadState, loadData, queryFailed,
    \* backend tables editor_sessions / editor_versions, localStorage user
    dbSessions, dbVersions, storedUser,
    \* how the latest generation ended, "none" until it has: "saved" /
    \* "unsaved" (the version was / was not persisted), "safety" (warning
    \* shown), "alert" (generic failure alert shown)
    lastOutcome,
    \* error.message of the error the latest generation's catch block caught,
    \* NoError while it has caught none
    lastError,
    \* generate-image edge function: its requests, the team_wallet balance
    edgeReq, teamBalance,
    \* UsageDashboard: displayed credits, the getBalance promise ("pending":
    \* query sent; "read": the query has read the table or failed, value is
    \* what the promise resolves with; "done": resolved), the realtime
    \* channel, whether the component is mounted, the last delivered balance
    credits, balanceFetch, channel, dashMounted, lastEvent,
    \* App component state; the logout, login and profile update still
    \* running in AuthService; the name column of the users table
    currentUser, currentView, isAuthModalOpen, isSettingsOpen, appMounted,
    logoutPending, loginPending, profileUpdate, dbUserNames,
    \* imageOptimizer: an input URL with its options, the results of
    \* getOptimizedImageUrl and of getOriginalImageUrl, and which were computed
    urlIn, urlWidth, urlQuality, urlFormat, urlOut, urlBack, urlPc,
    \* ImageGenerator component state (its prompt, isGenerating, safetyWarning
    \* and imageCount) and the model selected in App's sidebar
    igPrompt, igIsGenerating, igSafetyWarning, imageCount, appSelectedModel,
    \* App.handleGenerateRequest invocations, how many were made, and the
    \* batches (handleGenerate invocations) whose Promise.all has settled
    reqs, nextReq, settled,
    \* the status column of the logged-in user's row in the users table, and
    \* the status of the user object in localStorage
    userStatus, storedStatus

edVars == <<uploadedImage, generatedImage, prompt, selectedModel, isGenerating,
            safetyWarning, currentSessionId, sessions, gens, nextGen,
            loadState, loadData, queryFailed, dbSessions, dbVersions,
            storedUser, lastOutcome, lastError>>

edgeVars == <<edgeReq, teamBalance>>
dashVars == <<credits, balanceFetch, channel, dashMounted, lastEvent>>
appVars == <<currentUser, currentView, isAuthModalOpen, isSettingsOpen, appMounted,
             logoutPending, loginPending, profileUpdate, dbUserNames>>
urlVars == <<urlIn, urlWidth, urlQuality, urlFormat, urlOut, urlBack, urlPc>>

genVars == <<igPrompt, igIsGenerating, igSafetyWarning, imageCount,
             appSelectedModel, reqs, nextReq, settled, userStatus, storedStatus>>

vars == <<edVars, edgeVars, dashVars, appVars, urlVars, genVars>>

\* what no step of the editor touches
nonEditorVars == <<edgeVars, dashVars, appVars, urlVars, genVars>>

\* --------------------------------------------- EditorHistoryService (backend)
\* .order('created_at', { ascending: true }): rows by created_at, oldest first
RECURSIVE InsertAsc(_, _)
InsertAsc(row, seq) ==
    IF seq = <<>> THEN <<row>>
    ELSE IF row.created_at < Head(seq).created_at THEN <<row>> \o seq
    ELSE <<Head(seq)>> \o InsertAsc(row, Tail(seq))

RECURSIVE OrderAsc(_)
OrderAsc(rows) ==
    IF rows = <<>> THEN <<>>
    ELSE InsertAsc(rows[Len(rows)], OrderAsc(SubSeq(rows, 1, Len(rows) - 1)))

\* .order('created_at', { ascending: false }): newest first
RECURSIVE InsertDesc(_, _)
InsertDesc(row, seq) ==
    IF seq = <<>> THEN <<row>>
    ELSE IF row.created_at > Head(seq).created_at THEN <<row>> \o seq
    ELSE <<Head(seq)>> \o InsertDesc(row, Tail(seq))

RECURSIVE OrderDesc(_)
OrderDesc(rows) ==
    IF rows = <<>> THEN <<>>
    ELSE InsertDesc(rows[Len(rows)], OrderDesc(SubSeq(rows, 1, Len(rows) - 1)))

\* a row of editor_versions as the EditorVersion the client keeps
ToEditorVersion(v) ==
    [id |-> v.id, url |-> v.url, prompt |-> v.prompt, timestamp |-> v.created_at]

\* every fetched version, whatever its session
VersionsOf_Ungrouped(versionsData, sid) ==
    [i \in 1..Len(versionsData) |-> ToEditorVersion(versionsData[i])]

\* versionsMap.get(s.id) || []: the fetched versions of one session, in the
\* order the query returned them
VersionsOf(versionsData, sid) ==
    LET mine == SelectSeq(versionsData, LAMBDA v : v.session_id = sid)
    IN  [i \in 1..Len(mine) |-> ToEditorVersion(mine[i])]

\* EditorHistoryService.getSessions: user is the localStorage user, tblS and
\* tblV the tables, sessionsOk / versionsOk whether each query succeeds
GetSessions(user, tblS, tblV, sessionsOk, versionsOk) ==
    IF user = NoUser THEN <<>>
    ELSE IF ~sessionsOk THEN <<>>
    ELSE
      LET sessionsData == OrderDesc(SelectSeq(tblS, LAMBDA s : s.user_id = user.id))
          sessionIds == {sessionsData[i].id : i \in 1..Len(sessionsData)}
      IN  IF ~versionsOk THEN <<>>
          ELSE
            LET versionsData ==
                    OrderAsc(SelectSeq(tblV, LAMBDA v : v.session_id \in sessionIds))
                allSessions ==
                    [i \in 1..Len(sessionsData) |->
                        [id |-> sessionsData[i].id,
                         originalUrl |-> sessionsData[i].original_url,
                         versions |-> VersionsOf(versionsData, sessionsData[i].id),
                         timestamp |-> sessionsData[i].created_at,
                         userId |-> sessionsData[i].user_id]]
            IN  SelectSeq(allSessions, LAMBDA s : Len(s.versions) > 0)

\* created_at of the next inserted row (now() of the database)
DbNow == Len(dbSessions) + Len(dbVersions) + 1

\* the row createSession inserts; finalUrl is the stored copy when the
\* original is a data: URL and its upload succeeded
NewSessionRow(user, finalUrl) ==
    [id |-> DbSessionId(Len(dbSessions) + 1), user_id |-> user.id,
     original_url |-> finalUrl, created_at |-> DbNow]

\* the row addVersion inserts (its model column, which nothing reads back
\* but the version's tooltip, is left out)
NewVersionRow(sessionId, url, p) ==
    [id |-> DbVersionId(Len(dbVersions) + 1), session_id |-> sessionId,
     url |-> url, prompt |-> p, created_at |-> DbNow]

\* ------------------------------------------------------ ImageEditor component
\* error.message of what handleGenerate can catch; "" stands for an error
\* without a message (the Event an <img> onerror rejects with)
NoMessage == ""
FetchError == "Failed to fetch"
CreateErrors == {"SAFETY_VIOLATION: Content blocked by safety filters.",
                 "Edge Function returned a non-2xx status code",
                 "xAI API Error: 500"}
\* no error caught
NoError == "(none)"

\* String.prototype.includes on the strings above
Includes(str, part) ==
    CASE str = "SAFETY_VIOLATION: Content blocked by safety filters." ->
             part \in {"SAFETY_VIOLATION", "safety", "blocked"}
      [] str = "Edge Function returned a non-2xx status code" ->
             part \in {"Edge Function returned", "non-2xx"}
      [] str = "Nano Banana Pro" -> part \in {"Nano Banana"}
      [] OTHER -> FALSE

\* a handleGenerate invocation that has not been made yet
IdleGen ==
    [pc |-> "idle", uploadedImage |-> NoImage, prompt |-> "", model |-> "", sessionId |-> NULL, activeSessionId |-> NULL,
     imageUrl |-> NoImage]

InFlight(k) == gens[k].pc \notin {"idle", "done"}

\* an invocation that has returned: its closure is gone
Finished == [IdleGen EXCEPT !.pc = "done"]

\* sessions.find(s => s.id === currentSessionId)
HasCurrentSession == \E i \in 1..Len(sessions) : sessions[i].id = currentSessionId
CurrentSession ==
    sessions[CHOOSE i \in 1..Len(sessions) :
                /\ sessions[i].id = currentSessionId
                /\ \A j \in 1..(i - 1) : sessions[j].id # currentSessionId]

\* prev.map(s => s.id === tempSessionId ? newSession : s)
ReplaceSession(ss, tempSessionId, newSession) ==
    [i \in 1..Len(ss) |-> IF ss[i].id = tempSessionId THEN newSession ELSE ss[i]]

\* prev.map(session => session.id === target
\*          ? {...session, versions: [...session.versions, tempVersion]} : session)
AppendVersion(ss, target, tempVersion) ==
    [i \in 1..Len(ss) |->
        IF ss[i].id = target
        THEN [ss[i] EXCEPT !.versions = Append(@, tempVersion)]
        ELSE ss[i]]

\* prev.map(session => session.id === target ? {...session, versions:
\*          session.versions.map(v => v.id === tempVersionId ? saved : v)} : session)
ReplaceVersion(ss, target, tempVersionId, saved) ==
    [i \in 1..Len(ss) |->
        IF ss[i].id = target
        THEN [ss[i] EXCEPT !.versions =
                 [j \in 1..Len(@) |-> IF @[j].id = tempVersionId THEN saved ELSE @[j]]]
        ELSE ss[i]]

\* the optimistic records of generation k
TempSession(k) ==
    [id |-> TempId(k), originalUrl |-> gens[k].uploadedImage, versions |-> <<>>,
     timestamp |-> k, userId |-> "temp"]
TempVersion(k) ==
    [id |-> TempId(k), url |-> gens[k].imageUrl, prompt |-> gens[k].prompt,
     timestamp |-> k]

\* startNewSession: file upload, drop, or the initialImage effect
StartNewSession(img) ==
    /\ uploadedImage' = img
    /\ generatedImage' = NoImage
    /\ prompt' = ""
    /\ currentSessionId' = NULL
    /\ UNCHANGED <<selectedModel, isGenerating, safetyWarning, sessions, gens,
                   nextGen, loadState, loadData, dbSessions, dbVersions,
                   storedUser, lastOutcome, lastError, queryFailed,
                   nonEditorVars>>

\* the prompt input's onChange, fired when the text changes
SetPrompt(p) ==
    /\ p # prompt
    /\ prompt' = p
    /\ safetyWarning' = FALSE
    /\ UNCHANGED <<uploadedImage, generatedImage, selectedModel, isGenerating,
                   currentSessionId, sessions, gens, nextGen, loadState, loadData,
                   dbSessions, dbVersions, storedUser, lastOutcome, lastError, queryFailed,
                   nonEditorVars>>

\* the close button of the safety warning toast, rendered while it is shown
DismissWarning ==
    /\ safetyWarning
    /\ safetyWarning' = FALSE
    /\ UNCHANGED <<uploadedImage, generatedImage, prompt, selectedModel,
                   isGenerating, currentSessionId, sessions, gens, nextGen,
                   loadState, loadData, dbSessions, dbVersions, storedUser,
                   lastOutcome, lastError, queryFailed, nonEditorVars>>

\* a click on another model in the model menu
SelectModel(m) ==
    /\ m # selectedModel
    /\ selectedModel' = m
    /\ UNCHANGED <<uploadedImage, generatedImage, prompt, isGenerating,
                   safetyWarning, currentSessionId, sessions, gens, nextGen,
                   loadState, loadData, dbSessions, dbVersions, storedUser,
                   lastOutcome, lastError, queryFailed,
                   nonEditorVars>>

\* a click on session i of the sidebar
RestoreSession(i) ==
    /\ i \in 1..Len(sessions)
    /\ currentSessionId' = sessions[i].id
    /\ uploadedImage' = sessions[i].originalUrl
    /\ IF Len(sessions[i].versions) > 0
       THEN LET lastVersion == sessions[i].versions[Len(sessions[i].versions)]
            IN  /\ generatedImage' = lastVersion.url
                /\ prompt' = lastVersion.prompt
       ELSE /\ generatedImage' = NoImage
            /\ prompt' = ""
    /\ UNCHANGED <<selectedModel, isGenerating, safetyWarning, sessions, gens,
                   nextGen, loadState, loadData, dbSessions, dbVersions,
                   storedUser, lastOutcome, lastError, queryFailed,
                   nonEditorVars>>

\* a click on version j of the current session's panel
RestoreVersion(j) ==
    /\ HasCurrentSession
    /\ j \in 1..Len(CurrentSession.versions)
    /\ generatedImage' = CurrentSession.versions[j].url
    /\ prompt' = CurrentSession.versions[j].prompt
    /\ UNCHANGED <<uploadedImage, selectedModel, isGenerating, safetyWarning,
                   currentSessionId, sessions, gens, nextGen, loadState, loadData,
                   dbSessions, dbVersions, storedUser, lastOutcome, lastError, queryFailed,
                   nonEditorVars>>

\* the "Original" button of the current session's panel
ShowOriginal ==
    /\ HasCurrentSession
    /\ generatedImage' = NoImage
    /\ prompt' = ""
    /\ UNCHANGED <<uploadedImage, selectedModel, isGenerating, safetyWarning,
                   currentSessionId, sessions, gens, nextGen, loadState, loadData,
                   dbSessions, dbVersions, storedUser, lastOutcome, lastError, queryFailed,
                   nonEditorVars>>

\* the "New Session" button
ResetEditor ==
    /\ uploadedImage' = NoImage
    /\ generatedImage' = NoImage
    /\ prompt' = ""
    /\ safetyWarning' = FALSE
    /\ currentSessionId' = NULL
    /\ UNCHANGED <<selectedModel, isGenerating, sessions, gens, nextGen,
                   loadState, loadData, dbSessions, dbVersions, storedUser,
                   lastOutcome, lastError, queryFailed,
                   nonEditorVars>>

\* the loadSessions effect: the queries of getSessions run in the backend ...
LoadSessionsQuery ==
    /\ loadState = "pending"
    /\ \E sessionsOk, versionsOk \in BOOLEAN :
          /\ loadData' = GetSessions(storedUser, dbSessions, dbVersions,
                                     sessionsOk, versionsOk)
          /\ queryFailed' = (storedUser # NoUser /\ ~(sessionsOk /\ versionsOk))
    /\ loadState' = "fetched"
    /\ UNCHANGED <<uploadedImage, generatedImage, prompt, selectedModel,
                   isGenerating, safetyWarning, currentSessionId, sessions, gens,
                   nextGen, dbSessions, dbVersions, storedUser, lastOutcome, lastError,
                   nonEditorVars>>

\* ... and its promise resolves: setSessions(data)
LoadSessionsResolve ==
    /\ loadState = "fetched"
    /\ sessions' = loadData
    /\ loadData' = <<>>
    /\ queryFailed' = FALSE
    /\ loadState' = "done"
    /\ UNCHANGED <<uploadedImage, generatedImage, prompt, selectedModel,
                   isGenerating, safetyWarning, currentSessionId, gens, nextGen,
                   dbSessions, dbVersions, storedUser, lastOutcome, lastError,
                   nonEditorVars>>

\* ------------------------------------------------------------ handleGenerate
\* a guard that does not look at isGenerating
GenerateGuard_NoBusyCheck ==
    /\ uploadedImage # NoImage
    /\ Trim(prompt) # ""

\* if (!uploadedImage || !prompt.trim() || isGenerating) return;
GenerateGuard ==
    /\ uploadedImage # NoImage
    /\ Trim(prompt) # ""
    /\ ~isGenerating

\* handleGenerate is invoked (Generate button, or Enter in the prompt input):
\* it returns at once unless the guard holds; otherwise it takes the render's
\* state into its closure and starts generation nextGen + 1
HandleGenerate ==
    /\ nextGen < MaxGen
    /\ IF GenerateGuard
       THEN LET k == nextGen + 1
                sourceImage == IF generatedImage # NoImage THEN generatedImage
                               ELSE uploadedImage
            IN  /\ isGenerating' = TRUE
                /\ safetyWarning' = FALSE
                /\ nextGen' = k
                /\ gens' = [gens EXCEPT ![k] =
                       [IdleGen EXCEPT
                           !.pc = IF IsHttp(sourceImage) THEN "fetchSource"
                                  ELSE "uploadRef",
                           !.uploadedImage = uploadedImage,
                           !.prompt = prompt,
                           !.model = selectedModel,
                           !.sessionId = currentSessionId]]
                /\ lastOutcome' = "none"
                /\ lastError' = NoError
                /\ UNCHANGED <<uploadedImage, generatedImage, prompt,
                               selectedModel, currentSessionId, sessions,
                               loadState, loadData, dbSessions, dbVersions,
                               storedUser, queryFailed, nonEditorVars>>
       ELSE UNCHANGED vars

\* a catch that alerts and has no finally block
Catch_NoFinally(k, message) ==
    /\ safetyWarning' = safetyWarning
    /\ gens' = [gens EXCEPT ![k] = Finished]
    /\ lastOutcome' = "alert"
    /\ lastError' = message
    /\ isGenerating' = isGenerating

\* a catch that takes every generic edge-function error for a safety block,
\* whatever the model
Catch_AnyModel(k, message) ==
    LET warn == \/ Includes(message, "SAFETY_VIOLATION")
                \/ Includes(message, "safety")
                \/ Includes(message, "blocked")
                \/ Includes(message, "FunctionsHttpError")
                \/ Includes(message, "Edge Function returned")
                \/ Includes(message, "non-2xx")
    IN  /\ safetyWarning' = (IF warn THEN TRUE ELSE safetyWarning)
        /\ gens' = [gens EXCEPT ![k] = Finished]
        /\ lastOutcome' = (IF warn THEN "safety" ELSE "alert")
        /\ lastError' = message
        /\ isGenerating' = FALSE

\* catch (error) { ... } finally { setIsGenerating(false) }
Catch(k, message) ==
    LET isExplicitSafety ==
            /\ message # NoMessage
            /\ \/ Includes(message, "SAFETY_VIOLATION")
               \/ Includes(message, "safety")
               \/ Includes(message, "blocked")
        isNanoBanana == Includes(gens[k].model, "Nano Banana")
        isGenericEdgeError ==
            /\ message # NoMessage
            /\ \/ Includes(message, "FunctionsHttpError")
               \/ Includes(message, "Edge Function returned")
               \/ Includes(message, "non-2xx")
        warn == isExplicitSafety \/ (isNanoBanana /\ isGenericEdgeError)
    IN  /\ safetyWarning' = (IF warn THEN TRUE ELSE safetyWarning)
        /\ gens' = [gens EXCEPT ![k] = Finished]
        /\ lastOutcome' = (IF warn THEN "safety" ELSE "alert")
        /\ lastError' = message
        /\ isGenerating' = FALSE

\* const response = await fetch(sourceImage) ... for an http source
FetchSourceDone(k) ==
    /\ gens[k].pc = "fetchSource"
    /\ gens' = [gens EXCEPT ![k].pc = "create"]
    /\ UNCHANGED <<uploadedImage, generatedImage, prompt, selectedModel,
                   isGenerating, safetyWarning, currentSessionId, sessions,
                   nextGen, loadState, loadData, dbSessions, dbVersions,
                   storedUser, lastOutcome, lastError, queryFailed,
                   nonEditorVars>>

FetchSourceFailed(k) ==
    /\ gens[k].pc = "fetchSource"
    /\ Catch(k, FetchError)
    /\ UNCHANGED <<uploadedImage, generatedImage, prompt, selectedModel,
                   currentSessionId, sessions, nextGen, loadState, loadData,
                   dbSessions, dbVersions, storedUser, queryFailed,
                   nonEditorVars>>

\* referenceUrl = await uploadBase64Image(sourceImage, ...) for a data: source;
\* a failed upload is logged and the generation goes on without the URL
UploadReferenceDone(k) ==
    /\ gens[k].pc = "uploadRef"
    /\ gens' = [gens EXCEPT ![k].pc = "create"]
    /\ UNCHANGED <<uploadedImage, generatedImage, prompt, selectedModel,
                   isGenerating, safetyWarning, currentSessionId, sessions,
                   nextGen, loadState, loadData, dbSessions, dbVersions,
                   storedUser, lastOutcome, lastError, queryFailed,
                   nonEditorVars>>

\* const project = await ProjectsService.create({...}) returns
CreateProjectDone(k) ==
    /\ gens[k].pc = "create"
    /\ gens' = [gens EXCEPT ![k].pc = "imgLoad", ![k].imageUrl = GeneratedUrl(k)]
    /\ UNCHANGED <<uploadedImage, generatedImage, prompt, selectedModel,
                   isGenerating, safetyWarning, currentSessionId, sessions,
                   nextGen, loadState, loadData, dbSessions, dbVersions,
                   storedUser, lastOutcome, lastError, queryFailed,
                   nonEditorVars>>

\* ... or throws
CreateProjectFailed(k) ==
    /\ gens[k].pc = "create"
    /\ \E message \in CreateErrors : Catch(k, message)
    /\ UNCHANGED <<uploadedImage, generatedImage, prompt, selectedModel,
                   currentSessionId, sessions, nextGen, loadState, loadData,
                   dbSessions, dbVersions, storedUser, queryFailed,
                   nonEditorVars>>

\* the result image has loaded: setGeneratedImage, then either the optimistic
\* session and the call of createSession (no session in the closure), or the
\* optimistic version and the call of addVersion. Nothing can reach the
\* catch block from here on, so the closure's model is read no more
ImageLoaded(k) ==
    /\ gens[k].pc = "imgLoad"
    /\ generatedImage' = gens[k].imageUrl
    /\ IF gens[k].sessionId = NULL
       THEN /\ sessions' = <<TempSession(k)>> \o sessions
            /\ currentSessionId' = TempId(k)
            /\ gens' = [gens EXCEPT ![k].pc = "createSession",
                                    ![k].model = "",
                                    ![k].activeSessionId = TempId(k)]
       ELSE /\ sessions' = AppendVersion(sessions, gens[k].sessionId, TempVersion(k))
            /\ gens' = [gens EXCEPT ![k].pc = "addVersion",
                                    ![k].model = "",
                                    ![k].activeSessionId = gens[k].sessionId]
            /\ UNCHANGED currentSessionId
    /\ UNCHANGED <<uploadedImage, prompt, selectedModel, isGenerating,
                   safetyWarning, nextGen, loadState, loadData, dbSessions,
                   dbVersions, storedUser, lastOutcome, lastError, queryFailed,
                   nonEditorVars>>

\* img.onerror: the promise rejects
ImageLoadFailed(k) ==
    /\ gens[k].pc = "imgLoad"
    /\ Catch(k, NoMessage)
    /\ UNCHANGED <<uploadedImage, generatedImage, prompt, selectedModel,
                   currentSessionId, sessions, nextGen, loadState, loadData,
                   dbSessions, dbVersions, storedUser, queryFailed,
                   nonEditorVars>>

\* original_url of the inserted session: the stored copy of a data: URL, or
\* the URL itself (no data: URL, or its upload failed)
FinalUrls(originalUrl) ==
    IF IsDataImage(originalUrl) THEN {StoredCopy(originalUrl), originalUrl}
    ELSE {originalUrl}

\* createSession returned the inserted session: the temporary session is
\* replaced, then the optimistic version is added and addVersion called
CreateSessionDone(k) ==
    /\ gens[k].pc = "createSession"
    /\ storedUser # NoUser
    /\ \E finalUrl \in FinalUrls(gens[k].uploadedImage) :
         LET row == NewSessionRow(storedUser, finalUrl)
             newSession == [id |-> row.id, originalUrl |-> row.original_url,
                            versions |-> <<>>, timestamp |-> row.created_at,
                            userId |-> row.user_id]
         IN  /\ dbSessions' = Append(dbSessions, row)
             /\ currentSessionId' = newSession.id
             /\ sessions' = AppendVersion(
                                ReplaceSession(sessions, TempId(k), newSession),
                                newSession.id, TempVersion(k))
             /\ gens' = [gens EXCEPT ![k].pc = "addVersion",
                                     ![k].activeSessionId = newSession.id]
    /\ UNCHANGED <<uploadedImage, generatedImage, prompt, selectedModel,
                   isGenerating, safetyWarning, nextGen, loadState, loadData,
                   dbVersions, storedUser, lastOutcome, lastError, queryFailed,
                   nonEditorVars>>

\* createSession returned null (no stored user, or the insert failed): the
\* temporary session id stays the active one
CreateSessionFailed(k) ==
    /\ gens[k].pc = "createSession"
    /\ sessions' = AppendVersion(sessions, TempId(k), TempVersion(k))
    /\ gens' = [gens EXCEPT ![k].pc = "addVersion"]
    /\ UNCHANGED <<uploadedImage, generatedImage, prompt, selectedModel,
                   isGenerating, safetyWarning, currentSessionId, nextGen,
                   loadState, loadData, dbSessions, dbVersions, storedUser, lastOutcome, lastError, queryFailed,
                   nonEditorVars>>

\* addVersion returned the inserted version: the temporary version is replaced
AddVersionDone(k) ==
    /\ gens[k].pc = "addVersion"
    /\ \E i \in 1..Len(dbSessions) : dbSessions[i].id = gens[k].activeSessionId
    /\ LET row == NewVersionRow(gens[k].activeSessionId, gens[k].imageUrl,
                                gens[k].prompt)
       IN  /\ dbVersions' = Append(dbVersions, row)
           /\ sessions' = ReplaceVersion(sessions, gens[k].activeSessionId,
                                         TempId(k), ToEditorVersion(row))
    /\ gens' = [gens EXCEPT ![k] = Finished]
    /\ lastOutcome' = "saved"
    /\ isGenerating' = FALSE
    /\ UNCHANGED <<uploadedImage, generatedImage, prompt, selectedModel,
                   lastError, safetyWarning, currentSessionId, nextGen, loadState, loadData,
                   dbSessions, storedUser, queryFailed,
                   nonEditorVars>>

\* addVersion returned null: the temporary version stays
AddVersionFailed(k) ==
    /\ gens[k].pc = "addVersion"
    /\ gens' = [gens EXCEPT ![k] = Finished]
    /\ lastOutcome' = "unsaved"
    /\ isGenerating' = FALSE
    /\ UNCHANGED <<uploadedImage, generatedImage, prompt, selectedModel,
                   lastError, safetyWarning, currentSessionId, sessions, nextGen, loadState,
                   loadData, dbSessions, dbVersions, storedUser, queryFailed,
                   nonEditorVars>>

\* ------------------------------------------- generate-image edge function
\* a request the function has not received
NoRequest ==
    [pc |-> "idle", provider |-> "none", stored |-> FALSE, deducted |-> 0,
     response |-> "none"]

Providers == {"google", "xai"}

\* the balance deduct_team_credits leaves: the function is called by name and
\* its body is part of the database
DeductTeamCredits(balance, amount) == balance - amount

\* the response of a finished request r: "ok" (preflight), "imageUrl"
\* ({ imageUrl, credits }) or "error" ({ error }, sent by the outer catch)
Respond(r, kind) == [edgeReq[r] EXCEPT !.pc = "done", !.response = kind]

\* OPTIONS preflight: answered before anything else
EdgePreflight(r) ==
    /\ edgeReq[r].pc = "idle"
    /\ edgeReq' = [edgeReq EXCEPT ![r] = Respond(r, "ok")]
    /\ UNCHANGED <<teamBalance, edVars, dashVars, appVars, urlVars, genVars>>

\* the body is parsed and the provider's API is called
EdgeCallProvider(r, provider) ==
    /\ edgeReq[r].pc = "idle"
    /\ edgeReq' = [edgeReq EXCEPT ![r].pc = "generating", ![r].provider = provider]
    /\ UNCHANGED <<teamBalance, edVars, dashVars, appVars, urlVars, genVars>>

\* the API key is not set, the API answers with an error, the safety filter
\* blocks, or no image data comes back: thrown to the outer catch
EdgeProviderFailed(r) ==
    /\ edgeReq[r].pc = "generating"
    /\ edgeReq' = [edgeReq EXCEPT ![r] = Respond(r, "error")]
    /\ UNCHANGED <<teamBalance, edVars, dashVars, appVars, urlVars, genVars>>

\* the image is there; it is uploaded to the generated-images bucket
EdgeGenerated(r) ==
    /\ edgeReq[r].pc = "generating"
    /\ edgeReq' = [edgeReq EXCEPT ![r].pc = "uploading"]
    /\ UNCHANGED <<teamBalance, edVars, dashVars, appVars, urlVars, genVars>>

\* if (uploadError) throw uploadError
EdgeUploadFailed(r) ==
    /\ edgeReq[r].pc = "uploading"
    /\ edgeReq' = [edgeReq EXCEPT ![r] = Respond(r, "error")]
    /\ UNCHANGED <<teamBalance, edVars, dashVars, appVars, urlVars, genVars>>

EdgeUploadDone(r) ==
    /\ edgeReq[r].pc = "uploading"
    /\ edgeReq' = [edgeReq EXCEPT ![r].pc = "deducting", ![r].stored = TRUE]
    /\ UNCHANGED <<teamBalance, edVars, dashVars, appVars, urlVars, genVars>>

\* supabase.rpc('deduct_team_credits', { amount: 1 }) and the response after
\* it. rpcOk: the call succeeded. Only data is destructured from its result,
\* so a failed call (error set, data null) is answered like a successful one,
\* with credits: null
EdgeDeduct(r, rpcOk) ==
    /\ edgeReq[r].pc = "deducting"
    /\ IF rpcOk
         THEN /\ teamBalance' = DeductTeamCredits(teamBalance, 1)
              /\ edgeReq' = [edgeReq EXCEPT
                                ![r] = [Respond(r, "imageUrl") EXCEPT
                                           !.deducted = edgeReq[r].deducted + 1]]
         ELSE /\ teamBalance' = teamBalance
              /\ edgeReq' = [edgeReq EXCEPT ![r] = Respond(r, "imageUrl")]
    /\ UNCHANGED <<edVars, dashVars, appVars, urlVars, genVars>>

EdgeInit ==
    /\ edgeReq = [r \in 1..MaxReq |-> NoRequest]
    /\ teamBalance = StartBalance

EdgeNext ==
    \E r \in 1..MaxReq :
        \/ EdgePreflight(r)
        \/ \E provider \in Providers : EdgeCallProvider(r, provider)
        \/ EdgeProviderFailed(r)
        \/ EdgeGenerated(r)
        \/ EdgeUploadFailed(r)
        \/ EdgeUploadDone(r)
        \/ \E rpcOk \in BOOLEAN : EdgeDeduct(r, rpcOk)

\* ------------------------------------------------------- UsageDashboard
\* lastEvent before any event was delivered
NoEvent == <<>>

\* WalletService.getBalance: data?.balance || 0, and 0 when the query fails
GetBalance(balance, queryOk) == IF queryOk THEN balance ELSE 0

DashGetBalanceRead(queryOk) ==
    /\ balanceFetch.state = "pending"
    /\ balanceFetch' = [state |-> "read", value |-> GetBalance(teamBalance, queryOk)]
    /\ UNCHANGED <<credits, channel, dashMounted, lastEvent,
                   edVars, edgeVars, appVars, urlVars, genVars>>

\* .then(setCredits); a state update of an unmounted component is dropped
DashGetBalanceResolve ==
    /\ balanceFetch.state = "read"
    /\ balanceFetch' = [balanceFetch EXCEPT !.state = "done"]
    /\ credits' = IF dashMounted THEN balanceFetch.value ELSE credits
    /\ UNCHANGED <<channel, dashMounted, lastEvent,
                   edVars, edgeVars, appVars, urlVars, genVars>>

\* .subscribe(): the realtime server has joined the channel
DashChannelJoined ==
    /\ dashMounted
    /\ ~channel.joined
    /\ channel' = [channel EXCEPT !.joined = TRUE]
    /\ UNCHANGED <<credits, balanceFetch, dashMounted, lastEvent,
                   edVars, edgeVars, appVars, urlVars, genVars>>

\* an UPDATE of team_wallet (a deduction made for anyone in the team); a
\* joined channel is sent the new row. numeric: whether the balance arrives
\* as a JSON number
WalletUpdated(numeric) ==
    /\ teamBalance > 0
    /\ teamBalance' = DeductTeamCredits(teamBalance, 1)
    /\ channel' = IF channel.joined
                    THEN [channel EXCEPT
                            !.queue = Append(@, [balance |-> teamBalance',
                                                 numeric |-> numeric])]
                    ELSE channel
    /\ UNCHANGED <<edgeReq, credits, balanceFetch, dashMounted, lastEvent,
                   edVars, appVars, urlVars, genVars>>

\* the postgres_changes callback of subscribeToBalance, then the
\* dashboard's onBalanceChange
DashEventDelivered ==
    /\ dashMounted
    /\ channel.joined
    /\ channel.queue # <<>>
    /\ LET payload == Head(channel.queue)
       IN  /\ channel' = [channel EXCEPT !.queue = Tail(@)]
           /\ IF payload.numeric
                THEN /\ credits' = payload.balance
                     /\ lastEvent' = <<payload.balance>>
                ELSE UNCHANGED <<credits, lastEvent>>
    /\ UNCHANGED <<balanceFetch, dashMounted, edVars, edgeVars, appVars, urlVars, genVars>>

\* the effect's cleanup: supabase.removeChannel(channel)
DashUnmount ==
    /\ dashMounted
    /\ dashMounted' = FALSE
    /\ channel' = [joined |-> FALSE, queue |-> <<>>]
    /\ UNCHANGED <<credits, balanceFetch, lastEvent,
                   edVars, edgeVars, appVars, urlVars, genVars>>

\* the dashboard right after its effect has run
DashInit ==
    /\ credits = 0
    /\ balanceFetch = [state |-> "pending", value |-> 0]
    /\ channel = [joined |-> FALSE, queue |-> <<>>]
    /\ dashMounted = TRUE
    /\ lastEvent = NoEvent

DashNext ==
    \/ \E queryOk \in BOOLEAN : DashGetBalanceRead(queryOk)
    \/ DashGetBalanceResolve
    \/ DashChannelJoined
    \/ \E numeric \in BOOLEAN : WalletUpdated(numeric)
    \/ DashEventDelivered
    \/ DashUnmount

\* ------------------------------------------------------------------- App
Views == {"generate", "edit", "projects", "team", "usage"}
UserIds == {"u1", "u2"}
\* users.name values; the profile form accepts an empty name
Names == {"", "ana", "bo"}

NoLogin == "none"
NoProfileUpdate == [state |-> "idle", user |-> NoUser, name |-> ""]

\* AuthService.getCurrentUser: the user in localStorage
GetCurrentUser == storedUser

\* what the projects view is given: currentUser ? currentUser.name : ''
ProjectsCurrentUser == IF currentUser # NoUser THEN currentUser.name ELSE ""

\* Projects' auth protection: if (!currentUser) return <AccessRestricted />
ProjectsRenders ==
    IF ProjectsCurrentUser = "" THEN "AccessRestricted" ELSE "Projects"

\* a view rendered whoever asks
Protected_Open(component) == component

\* currentUser ? <Component /> : <AccessRestricted />
Protected(component) ==
    IF currentUser # NoUser THEN component ELSE "AccessRestricted"

\* what <main> shows
MainRenders ==
    CASE currentView = "generate" -> "ImageGenerator"
      [] currentView = "projects" -> ProjectsRenders
      [] currentView = "team" -> Protected("DesignersList")
      [] currentView = "usage" -> Protected("UsageDashboard")
      [] currentView = "edit" -> Protected("ImageEditor")

\* currentView === 'generate' && currentUser && <Sidebar />
SidebarShown == currentView = "generate" /\ currentUser # NoUser

\* the places a Sign In button is: TopNav without a user, AccessRestricted
SignInOffered == currentUser = NoUser \/ MainRenders = "AccessRestricted"

\* the mount effect: if (user) setCurrentUser(user)
AppMount ==
    /\ ~appMounted
    /\ appMounted' = TRUE
    /\ currentUser' = IF GetCurrentUser # NoUser THEN GetCurrentUser ELSE currentUser
    /\ UNCHANGED <<currentView, isAuthModalOpen, isSettingsOpen, logoutPending,
                   loginPending, profileUpdate, dbUserNames,
                   edVars, edgeVars, dashVars, urlVars, genVars>>

\* TopNav's onNavigate={setCurrentView}
Navigate(view) ==
    /\ appMounted
    /\ currentView' = view
    /\ UNCHANGED <<currentUser, isAuthModalOpen, isSettingsOpen, logoutPending,
                   loginPending, profileUpdate, dbUserNames, appMounted,
                   edVars, edgeVars, dashVars, urlVars, genVars>>

\* handleEditImage, called from the generator, the projects and the team view
HandleEditImage ==
    /\ appMounted
    /\ MainRenders \in {"ImageGenerator", "Projects", "DesignersList"}
    /\ currentView' = "edit"
    /\ UNCHANGED <<currentUser, isAuthModalOpen, isSettingsOpen, logoutPending,
                   loginPending, profileUpdate, dbUserNames, appMounted,
                   edVars, edgeVars, dashVars, urlVars, genVars>>

OpenAuth ==
    /\ appMounted
    /\ SignInOffered
    /\ isAuthModalOpen' = TRUE
    /\ UNCHANGED <<currentUser, currentView, isSettingsOpen, logoutPending,
                   loginPending, profileUpdate, dbUserNames, appMounted,
                   edVars, edgeVars, dashVars, urlVars, genVars>>

CloseAuth ==
    /\ isAuthModalOpen
    /\ isAuthModalOpen' = FALSE
    /\ UNCHANGED <<currentUser, currentView, isSettingsOpen, logoutPending,
                   loginPending, profileUpdate, dbUserNames, appMounted,
                   edVars, edgeVars, dashVars, urlVars, genVars>>

\* AuthModal.handleSubmit with the name of user id (a blank name is turned
\* down before any request): AuthService.login is awaited. One login is
\* followed at a time
LoginSubmit(id) ==
    /\ isAuthModalOpen
    /\ loginPending = NoLogin
    /\ dbUserNames[id] # ""
    /\ loginPending' = id
    /\ UNCHANGED <<currentUser, currentView, isAuthModalOpen, isSettingsOpen,
                   logoutPending, profileUpdate, dbUserNames, appMounted,
                   edVars, edgeVars, dashVars, urlVars, genVars>>

\* AuthService.login returns. found: the users query matched; then the user
\* is stored, and handleLogin sets currentUser from the storage and closes
\* the modal
LoginResolve(found) ==
    /\ loginPending # NoLogin
    /\ loginPending' = NoLogin
    /\ IF found
         THEN /\ storedUser' = User(loginPending, dbUserNames[loginPending])
              /\ currentUser' = storedUser'
              /\ isAuthModalOpen' = FALSE
         ELSE UNCHANGED <<storedUser, currentUser, isAuthModalOpen>>
    /\ UNCHANGED <<currentView, isSettingsOpen, logoutPending, profileUpdate,
                   dbUserNames, appMounted, edgeVars, dashVars, urlVars, genVars,
                   uploadedImage, generatedImage, prompt, selectedModel,
                   isGenerating, safetyWarning, currentSessionId, sessions, gens,
                   nextGen, loadState, loadData, queryFailed, dbSessions,
                   dbVersions, lastOutcome, lastError>>

OpenSettings ==
    /\ appMounted
    /\ currentUser # NoUser
    /\ isSettingsOpen' = TRUE
    /\ UNCHANGED <<currentUser, currentView, isAuthModalOpen, logoutPending,
                   loginPending, profileUpdate, dbUserNames, appMounted,
                   edVars, edgeVars, dashVars, urlVars, genVars>>

CloseSettings ==
    /\ currentUser # NoUser
    /\ isSettingsOpen
    /\ isSettingsOpen' = FALSE
    /\ UNCHANGED <<currentUser, currentView, isAuthModalOpen, logoutPending,
                   loginPending, profileUpdate, dbUserNames, appMounted,
                   edVars, edgeVars, dashVars, urlVars, genVars>>

\* ProfileSettings' onLogout: AuthService.logout() is started and not
\* awaited. With a stored user it first awaits the status update, without
\* one it clears the storage at once. One logout is followed at a time
Logout ==
    /\ currentUser # NoUser
    /\ isSettingsOpen
    /\ ~logoutPending
    /\ logoutPending' = (GetCurrentUser # NoUser)
    /\ currentUser' = NoUser
    /\ isSettingsOpen' = FALSE
    /\ isAuthModalOpen' = TRUE
    /\ UNCHANGED <<currentView, loginPending, profileUpdate, dbUserNames,
                   appMounted, edVars, edgeVars, dashVars, urlVars, genVars>>

\* AuthService.logout after its await: localStorage.removeItem
LogoutResolve ==
    /\ logoutPending
    /\ logoutPending' = FALSE
    /\ storedUser' = NoUser
    /\ UNCHANGED <<currentUser, currentView, isAuthModalOpen, isSettingsOpen,
                   loginPending, profileUpdate, dbUserNames, appMounted,
                   edgeVars, dashVars, urlVars, genVars,
                   uploadedImage, generatedImage, prompt, selectedModel,
                   isGenerating, safetyWarning, currentSessionId, sessions, gens,
                   nextGen, loadState, loadData, queryFailed, dbSessions,
                   dbVersions, lastOutcome, lastError>>

\* handleUpdateProfile from the settings form: AuthService.updateProfile
\* takes the stored user and awaits the upload and the users update.
\* Without a stored user it returns null at once and nothing changes
HandleUpdateProfile(name) ==
    /\ currentUser # NoUser
    /\ isSettingsOpen
    /\ profileUpdate.state = "idle"
    /\ profileUpdate' = IF GetCurrentUser # NoUser
                          THEN [state |-> "pending", user |-> GetCurrentUser,
                                name |-> name]
                          ELSE profileUpdate
    /\ UNCHANGED <<currentUser, currentView, isAuthModalOpen, isSettingsOpen,
                   logoutPending, loginPending, dbUserNames, appMounted,
                   edVars, edgeVars, dashVars, urlVars, genVars>>

\* AuthService.updateProfile returns. saved: upload and update succeeded;
\* then the changed user is stored and becomes currentUser, and the form
\* closes itself after its delay
UpdateProfileResolve(saved) ==
    /\ profileUpdate.state = "pending"
    /\ IF saved
         THEN LET updatedUser == [profileUpdate.user EXCEPT !.name = profileUpdate.name]
              IN  /\ dbUserNames' = [dbUserNames EXCEPT
                                        ![updatedUser.id] = updatedUser.name]
                  /\ storedUser' = updatedUser
                  /\ currentUser' = updatedUser
                  /\ profileUpdate' = [NoProfileUpdate EXCEPT !.state = "closing"]
         ELSE /\ profileUpdate' = NoProfileUpdate
              /\ UNCHANGED <<dbUserNames, storedUser, currentUser>>
    /\ UNCHANGED <<currentView, isAuthModalOpen, isSettingsOpen, logoutPending,
                   loginPending, appMounted, edgeVars, dashVars, urlVars, genVars,
                   uploadedImage, generatedImage, prompt, selectedModel,
                   isGenerating, safetyWarning, currentSessionId, sessions, gens,
                   nextGen, loadState, loadData, queryFailed, dbSessions,
                   dbVersions, lastOutcome, lastError>>

\* setTimeout(() => onClose(), 500) of the settings form
ProfileFormCloses ==
    /\ profileUpdate.state = "closing"
    /\ profileUpdate' = NoProfileUpdate
    /\ isSettingsOpen' = FALSE
    /\ UNCHANGED <<currentUser, currentView, isAuthModalOpen, logoutPending,
                   loginPending, dbUserNames, appMounted,
                   edVars, edgeVars, dashVars, urlVars, genVars>>

\* App before its mount effect
AppInit ==
    /\ currentUser = NoUser
    /\ currentView = "generate"
    /\ isAuthModalOpen = FALSE
    /\ isSettingsOpen = FALSE
    /\ logoutPending = FALSE
    /\ loginPending = NoLogin
    /\ profileUpdate = NoProfileUpdate
    /\ appMounted = FALSE
    /\ dbUserNames = [id \in UserIds |-> IF id = "u1" THEN "ana" ELSE "bo"]

AppNext ==
    \/ AppMount
    \/ \E view \in Views : Navigate(view)
    \/ HandleEditImage
    \/ OpenAuth
    \/ CloseAuth
    \/ \E id \in UserIds : LoginSubmit(id)
    \/ \E found \in BOOLEAN : LoginResolve(found)
    \/ OpenSettings
    \/ CloseSettings
    \/ Logout
    \/ LogoutResolve
    \/ \E name \in Names : HandleUpdateProfile(name)
    \/ \E saved \in BOOLEAN : UpdateProfileResolve(saved)
    \/ ProfileFormCloses

\* ---------------------------------------------------------- imageOptimizer
\* Strings are sequences of characters. The URLs tried are made of these
\* pieces; a piece of more than one character is spelled out by Spell
UrlPieces ==
    {"data:", "blob:", "wsrv.nl", "a", "/", " ", "+", "%", "&", "=", "#", "?", "2B"}

Spell(piece) ==
    CASE piece = "data:" -> <<"d", "a", "t", "a", ":">>
      [] piece = "blob:" -> <<"b", "l", "o", "b", ":">>
      [] piece = "wsrv.nl" -> <<"w", "s", "r", "v", ".", "n", "l">>
      [] piece = "2B" -> <<"2", "B">>
      [] piece = "https://wsrv.nl/" ->
            <<"h", "t", "t", "p", "s", ":", "/", "/",
              "w", "s", "r", "v", ".", "n", "l", "/">>
      [] piece = "url" -> <<"u", "r", "l">>
      [] piece = "w" -> <<"w">>
      [] piece = "q" -> <<"q">>
      [] piece = "output" -> <<"o", "u", "t", "p", "u", "t">>
      [] piece = "af" -> <<"a", "f">>
      [] piece = "il" -> <<"i", "l">>
      [] piece = "webp" -> <<"w", "e", "b", "p">>
      [] piece = "jpeg" -> <<"j", "p", "e", "g">>
      [] piece = "png" -> <<"p", "n", "g">>
      [] OTHER -> <<piece>>

RECURSIVE Concat(_)
Concat(pieces) ==
    IF pieces = <<>> THEN <<>> ELSE Spell(Head(pieces)) \o Concat(Tail(pieces))

Widths == {0, 40}
Qualities == {80, 5}
Formats == {"webp", "jpeg", "png"}

\* String.prototype.startsWith / includes
StartsWith(s, prefix) ==
    Len(s) >= Len(prefix) /\ SubSeq(s, 1, Len(prefix)) = prefix

UrlIncludes(s, part) ==
    \E i \in 1..(Len(s) + 1) :
        i + Len(part) - 1 <= Len(s) /\ SubSeq(s, i, i + Len(part) - 1) = part

\* position of the first c in s, 0 when there is none
RECURSIVE IndexFrom(_, _, _)
IndexFrom(s, c, i) ==
    IF i > Len(s) THEN 0 ELSE IF s[i] = c THEN i ELSE IndexFrom(s, c, i + 1)

IndexOf(s, c) == IndexFrom(s, c, 1)

\* Number.prototype.toString of a non-negative integer
Digit(d) ==
    CASE d = 0 -> "0" [] d = 1 -> "1" [] d = 2 -> "2" [] d = 3 -> "3"
      [] d = 4 -> "4" [] d = 5 -> "5" [] d = 6 -> "6" [] d = 7 -> "7"
      [] d = 8 -> "8" [] d = 9 -> "9"

RECURSIVE NumberToString(_)
NumberToString(n) ==
    IF n < 10 THEN <<Digit(n)>> ELSE NumberToString(n \div 10) \o <<Digit(n % 10)>>

\* application/x-www-form-urlencoded, as URLSearchParams writes and reads it.
\* Characters left as they are by the serializer
FormSafe ==
    {"a", "b", "d", "e", "f", "g", "h", "i", "j", "l", "n", "o", "p", "q", "r",
     "s", "t", "u", "v", "w", "B", "0", "2", "4", "5", "8", "*", "-", ".", "_"}

\* the code of a character that is percent-encoded
HexOf(c) ==
    CASE c = ":" -> <<"3", "A">>
      [] c = "/" -> <<"2", "F">>
      [] c = "+" -> <<"2", "B">>
      [] c = "%" -> <<"2", "5">>
      [] c = "&" -> <<"2", "6">>
      [] c = "=" -> <<"3", "D">>
      [] c = "#" -> <<"2", "3">>
      [] c = "?" -> <<"3", "F">>

\* a serializer that writes every character as it is
FormEncodeChar_Raw(c) == <<c>>

FormEncodeChar(c) ==
    IF c \in FormSafe THEN <<c>>
    ELSE IF c = " " THEN <<"+">>
    ELSE <<"%">> \o HexOf(c)

RECURSIVE FormEncode(_)
FormEncode(s) ==
    IF s = <<>> THEN <<>> ELSE FormEncodeChar(Head(s)) \o FormEncode(Tail(s))

\* URLSearchParams.prototype.toString of a list of <<name, value>> pairs
RECURSIVE SearchParamsToString(_)
SearchParamsToString(params) ==
    IF params = <<>> THEN <<>>
    ELSE FormEncode(Head(params)[1]) \o <<"=">> \o FormEncode(Head(params)[2])
         \o (IF Tail(params) = <<>> THEN <<>>
             ELSE <<"&">> \o SearchParamsToString(Tail(params)))

\* value of a hexadecimal digit, -1 for any other character
HexValue(c) ==
    CASE c = "0" -> 0 [] c = "1" -> 1 [] c = "2" -> 2 [] c = "3" -> 3
      [] c = "4" -> 4 [] c = "5" -> 5 [] c = "6" -> 6 [] c = "7" -> 7
      [] c = "8" -> 8 [] c = "9" -> 9
      [] c \in {"a", "A"} -> 10 [] c \in {"b", "B"} -> 11
      [] c \in {"c", "C"} -> 12 [] c \in {"d", "D"} -> 13
      [] c \in {"e", "E"} -> 14 [] c \in {"f", "F"} -> 15
      [] OTHER -> -1

\* the character a decoded byte stands for. Bytes from 128 on never form a
\* UTF-8 sequence in the strings tried, and decode to U+FFFD
ByteChar(byte) ==
    CASE byte = 34 -> "\"" [] byte = 35 -> "#" [] byte = 37 -> "%"
      [] byte = 38 -> "&" [] byte = 42 -> "*" [] byte = 43 -> "+"
      [] byte = 45 -> "-" [] byte = 47 -> "/" [] byte = 58 -> ":"
      [] byte = 61 -> "=" [] byte = 63 -> "?"
      [] OTHER -> "U+FFFD"

\* "+" becomes a space, %XY the byte XY, a % without two hex digits stays
RECURSIVE FormDecode(_)
FormDecode(s) ==
    IF s = <<>> THEN <<>>
    ELSE IF Head(s) = "+" THEN <<" ">> \o FormDecode(Tail(s))
    ELSE IF /\ Head(s) = "%"
            /\ Len(s) >= 3
            /\ HexValue(s[2]) >= 0
            /\ HexValue(s[3]) >= 0
      THEN <<ByteChar(16 * HexValue(s[2]) + HexValue(s[3]))>>
           \o FormDecode(SubSeq(s, 4, Len(s)))
    ELSE <<Head(s)>> \o FormDecode(Tail(s))

\* searchParams.get(name) of a query string: the value of the first pair of
\* that name, NoParam (null) when there is none
NoParam == <<"null">>

RECURSIVE SearchParamsGet(_, _)
SearchParamsGet(query, name) ==
    IF query = <<>> THEN NoParam
    ELSE
      LET amp == IndexOf(query, "&")
          pair == IF amp = 0 THEN query ELSE SubSeq(query, 1, amp - 1)
          rest == IF amp = 0 THEN <<>> ELSE SubSeq(query, amp + 1, Len(query))
          eq == IndexOf(pair, "=")
          key == IF eq = 0 THEN pair ELSE SubSeq(pair, 1, eq - 1)
          value == IF eq = 0 THEN <<>> ELSE SubSeq(pair, eq + 1, Len(pair))
      IN  IF pair # <<>> /\ FormDecode(key) = name
            THEN FormDecode(value)
            ELSE SearchParamsGet(rest, name)

\* new URL(url): leading and trailing spaces are dropped first
RECURSIVE StripSpaces(_)
StripSpaces(s) ==
    IF s = <<>> THEN s
    ELSE IF Head(s) = " " THEN StripSpaces(Tail(s))
    ELSE IF s[Len(s)] = " " THEN StripSpaces(SubSeq(s, 1, Len(s) - 1))
    ELSE s

\* whether new URL(url) parses rather than throws: the strings it is given
\* are the proxy's URL, data: and blob: URLs (which parse whatever follows
\* the scheme) and strings without a scheme (which throw)
UrlParses(url) ==
    LET s == StripSpaces(url)
    IN  \/ StartsWith(s, Spell("https://wsrv.nl/"))
        \/ StartsWith(s, Spell("data:"))
        \/ StartsWith(s, Spell("blob:"))

\* the query of a parsed URL: what follows the first "?" up to the fragment
UrlQuery(url) ==
    LET s == StripSpaces(url)
        hash == IndexOf(s, "#")
        beforeHash == IF hash = 0 THEN s ELSE SubSeq(s, 1, hash - 1)
        mark == IndexOf(beforeHash, "?")
    IN  IF mark = 0 THEN <<>> ELSE SubSeq(beforeHash, mark + 1, Len(beforeHash))

\* getOptimizedImageUrl(url, width, quality, format); width 0 stands for a
\* width left out as well (if (width) skips both)
GetOptimizedImageUrl(url, width, quality, format) ==
    IF url = <<>> THEN <<>>
    ELSE IF StartsWith(url, Spell("data:")) \/ StartsWith(url, Spell("blob:"))
      THEN url
    ELSE
      LET params ==
              <<<<Spell("url"), url>>>>
              \o (IF width # 0 THEN <<<<Spell("w"), NumberToString(width)>>>> ELSE <<>>)
              \o <<<<Spell("q"), NumberToString(quality)>>,
                   <<Spell("output"), Spell(format)>>,
                   <<Spell("af"), <<>>>>,
                   <<Spell("il"), <<>>>>>>
      IN  Spell("https://wsrv.nl/") \o <<"?">> \o SearchParamsToString(params)

\* getOriginalImageUrl(url)
GetOriginalImageUrl(url) ==
    IF url = <<>> THEN <<>>
    ELSE IF UrlIncludes(url, Spell("wsrv.nl"))
      THEN IF ~UrlParses(url) THEN url
           ELSE LET originalUrl == SearchParamsGet(UrlQuery(url), Spell("url"))
                IN  IF originalUrl # NoParam /\ originalUrl # <<>>
                      THEN originalUrl
                      ELSE url
    ELSE url

\* a caller optimizes urlIn for display
Optimize ==
    /\ urlPc = "input"
    /\ urlOut' = GetOptimizedImageUrl(urlIn, urlWidth, urlQuality, urlFormat)
    /\ urlPc' = "optimized"
    /\ UNCHANGED <<urlIn, urlWidth, urlQuality, urlFormat, urlBack,
                   edVars, edgeVars, dashVars, appVars, genVars>>

\* and later asks for the original of what it displays
Restore ==
    /\ urlPc = "optimized"
    /\ urlBack' = GetOriginalImageUrl(urlOut)
    /\ urlPc' = "restored"
    /\ UNCHANGED <<urlIn, urlWidth, urlQuality, urlFormat, urlOut,
                   edVars, edgeVars, dashVars, appVars, genVars>>

\* the optimizer before it is given anything
UrlIdle ==
    /\ urlIn = <<>>
    /\ urlWidth = 0
    /\ urlQuality = 80
    /\ urlFormat = "webp"
    /\ urlOut = <<>>
    /\ urlBack = <<>>
    /\ urlPc = "input"

\* sequences of at most n pieces
RECURSIVE PieceSeqs(_)
PieceSeqs(n) ==
    IF n = 0 THEN {<<>>}
    ELSE LET shorter == PieceSeqs(n - 1)
         IN  shorter \cup {Append(ps, p) : ps \in shorter, p \in UrlPieces}

UrlInit ==
    /\ urlIn \in {Concat(ps) : ps \in PieceSeqs(MaxUrlPieces)}
    /\ urlWidth \in Widths
    /\ urlQuality \in Qualities
    /\ urlFormat \in Formats
    /\ urlOut = <<>>
    /\ urlBack = <<>>
    /\ urlPc = "input"

UrlNext == Optimize \/ Restore

\* ------------------------------ ImageGenerator and App.handleGenerateRequest
\* the image counts the generator offers, as far as the model's requests go
ImageCounts == {c \in {1, 2, 3, 4} : c <= MaxRequests}

\* isLoggedIn={!!currentUser}
IsLoggedIn == currentUser # NoUser

\* a handleGenerateRequest invocation that has not been made. pc: where it
\* is; status, phase: the updateStatus call it awaits (its update "sent", or
\* "answered" by the backend, or "skipped" for want of a stored user); model:
\* selectedModel of its closure; batch: the first request of the handleGenerate
\* invocation that made it; error: the message of what create threw; result:
\* what its promise settled with; wrote: the statuses its updates have stored
\* in the users table while it runs
NoGenRequest ==
    [pc |-> "idle", status |-> "online", phase |-> "skipped", model |-> "",
     batch |-> 0, error |-> NoError, result |-> "none", wrote |-> {}]

\* a request of batch b after handleGenerate has used its result: the
\* closures are gone
SettledRequest(b) == [NoGenRequest EXCEPT !.pc = "done", !.batch = b]

BatchOf(b) == {r \in 1..MaxRequests : reqs[r].batch = b}

\* AuthService.updateStatus(status) up to its await: with a user in
\* localStorage the update is sent, without one nothing is
UpdateStatus(req, status) ==
    [req EXCEPT !.pc = "updateStatus", !.status = status,
                !.phase = IF storedUser # NoUser THEN "sent" ELSE "skipped"]

\* the generator's prompt textarea onChange (the textarea is disabled while
\* nobody is logged in)
IgSetPrompt(p) ==
    /\ IsLoggedIn
    /\ p # igPrompt
    /\ igPrompt' = p
    /\ igSafetyWarning' = FALSE
    /\ UNCHANGED <<igIsGenerating, imageCount, appSelectedModel, reqs, nextReq,
                   settled, userStatus, storedStatus,
                   edVars, edgeVars, dashVars, appVars, urlVars>>

\* a click on one of the image count buttons
SetImageCount(c) ==
    /\ c # imageCount
    /\ imageCount' = c
    /\ UNCHANGED <<igPrompt, igIsGenerating, igSafetyWarning, appSelectedModel,
                   reqs, nextReq, settled, userStatus, storedStatus,
                   edVars, edgeVars, dashVars, appVars, urlVars>>

\* a click on a model of the sidebar, shown in the generate view to a
\* logged-in user
OnSelectModel(m) ==
    /\ currentView = "generate"
    /\ IsLoggedIn
    /\ m # appSelectedModel
    /\ appSelectedModel' = m
    /\ UNCHANGED <<igPrompt, igIsGenerating, igSafetyWarning, imageCount,
                   reqs, nextReq, settled, userStatus, storedStatus,
                   edVars, edgeVars, dashVars, appVars, urlVars>>

\* ImageGenerator.handleGenerate (Generate button, or Enter in the textarea)
\* up to its await of Promise.all. Not logged in: onGenerate opens the auth
\* modal. Otherwise, unless the prompt is blank, imageCount calls of
\* handleGenerateRequest are made, each running up to its await of
\* AuthService.updateStatus('generating')
IgHandleGenerate ==
    IF ~IsLoggedIn
    THEN /\ isAuthModalOpen' = TRUE
         /\ UNCHANGED <<currentUser, currentView, isSettingsOpen, appMounted,
                        logoutPending, loginPending, profileUpdate, dbUserNames,
                        genVars, edVars, edgeVars, dashVars, urlVars>>
    ELSE IF Trim(igPrompt) = ""
    THEN UNCHANGED vars
    ELSE /\ nextReq + imageCount <= MaxRequests
         /\ igIsGenerating' = TRUE
         /\ igSafetyWarning' = FALSE
         /\ reqs' = [r \in 1..MaxRequests |->
                        IF r \in (nextReq + 1)..(nextReq + imageCount)
                        THEN UpdateStatus([NoGenRequest EXCEPT
                                              !.model = appSelectedModel,
                                              !.batch = nextReq + 1],
                                          "generating")
                        ELSE reqs[r]]
         /\ nextReq' = nextReq + imageCount
         /\ UNCHANGED <<igPrompt, imageCount, appSelectedModel, settled,
                        userStatus, storedStatus,
                        edVars, edgeVars, dashVars, appVars, urlVars>>

\* the backend answers the update updateStatus sent: the row is updated, or
\* the answer carries an error, which updateStatus does not look at
StatusAnswered(r, updated) ==
    /\ reqs[r].pc = "updateStatus"
    /\ reqs[r].phase = "sent"
    /\ userStatus' = IF updated THEN reqs[r].status ELSE userStatus
    /\ reqs' = [reqs EXCEPT ![r].phase = "answered",
                            ![r].wrote = IF updated THEN @ \cup {reqs[r].status}
                                         ELSE @]
    /\ UNCHANGED <<igPrompt, igIsGenerating, igSafetyWarning, imageCount,
                   appSelectedModel, nextReq, settled, storedStatus,
                   edVars, edgeVars, dashVars, appVars, urlVars>>

\* updateStatus returns to handleGenerateRequest: after an answered update it
\* stores the status in localStorage; then ProjectsService.create is called
\* (after 'generating'), or the request's promise resolves (after 'online')
StatusResolved(r) ==
    /\ reqs[r].pc = "updateStatus"
    /\ reqs[r].phase \in {"answered", "skipped"}
    /\ storedStatus' = IF reqs[r].phase = "answered" THEN reqs[r].status
                       ELSE storedStatus
    /\ reqs' = [reqs EXCEPT ![r].pc = IF reqs[r].status = "generating"
                                      THEN "create" ELSE "done",
                            ![r].wrote = IF reqs[r].status = "generating"
                                         THEN @ ELSE {}]
    /\ UNCHANGED <<igPrompt, igIsGenerating, igSafetyWarning, imageCount,
                   appSelectedModel, nextReq, settled, userStatus,
                   edVars, edgeVars, dashVars, appVars, urlVars>>

\* ProjectsService.create returns the project: handleGenerateRequest will
\* resolve with it, and its finally block calls updateStatus('online')
GenCreateReturned(r) ==
    /\ reqs[r].pc = "create"
    /\ reqs' = [reqs EXCEPT ![r] = UpdateStatus([@ EXCEPT !.result = "project"],
                                                "online")]
    /\ UNCHANGED <<igPrompt, igIsGenerating, igSafetyWarning, imageCount,
                   appSelectedModel, nextReq, settled, userStatus, storedStatus,
                   edVars, edgeVars, dashVars, appVars, urlVars>>

\* ProjectsService.create throws: the catch block logs the error and makes
\* handleGenerateRequest resolve with null; finally as above
GenCreateThrew(r, message) ==
    /\ reqs[r].pc = "create"
    /\ reqs' = [reqs EXCEPT ![r] = UpdateStatus([@ EXCEPT !.result = "null",
                                                          !.error = message],
                                                "online")]
    /\ UNCHANGED <<igPrompt, igIsGenerating, igSafetyWarning, imageCount,
                   appSelectedModel, nextReq, settled, userStatus, storedStatus,
                   edVars, edgeVars, dashVars, appVars, urlVars>>

\* Promise.all of batch b settles and handleGenerate goes on: after a
\* rejection its catch block decides on the safety warning; otherwise the
\* prompt is emptied; finally setIsGenerating(false)
IgBatchSettled(b) ==
    /\ BatchOf(b) # {}
    /\ b \notin settled
    /\ \A r \in BatchOf(b) : reqs[r].pc = "done"
    /\ LET rejected == {r \in BatchOf(b) : reqs[r].result = "rejected"}
       IN  IF rejected = {}
           THEN /\ igPrompt' = ""
                /\ UNCHANGED igSafetyWarning
           ELSE /\ \E r \in rejected :
                     LET message == reqs[r].error
                         isExplicitSafety ==
                             \/ Includes(message, "SAFETY_VIOLATION")
                             \/ Includes(message, "safety")
                             \/ Includes(message, "blocked")
                         isNanoBanana == Includes(reqs[r].model, "Nano Banana")
                         isGenericEdgeError ==
                             \/ Includes(message, "FunctionsHttpError")
                             \/ Includes(message, "Edge Function returned")
                             \/ Includes(message, "non-2xx")
                     IN  igSafetyWarning' =
                             IF isExplicitSafety \/ (isNanoBanana /\ isGenericEdgeError)
                             THEN TRUE ELSE igSafetyWarning
                /\ UNCHANGED igPrompt
    /\ igIsGenerating' = FALSE
    /\ settled' = settled \cup {b}
    /\ reqs' = [r \in 1..MaxRequests |->
                   IF r \in BatchOf(b) THEN SettledRequest(b) ELSE reqs[r]]
    /\ UNCHANGED <<imageCount, appSelectedModel, nextReq, userStatus,
                   storedStatus, edVars, edgeVars, dashVars, appVars, urlVars>>

\* the generator as useState leaves it, no request made; the users row of
\* a logged-in user is 'online' since the login
GenIdle ==
    /\ igPrompt = ""
    /\ igIsGenerating = FALSE
    /\ igSafetyWarning = FALSE
    /\ imageCount = 1
    /\ appSelectedModel = "Grok 2"
    /\ reqs = [r \in 1..MaxRequests |-> NoGenRequest]
    /\ nextReq = 0
    /\ settled = {}
    /\ userStatus = "online"
    /\ storedStatus = "online"

GenNext ==
    \/ \E p \in Prompts : IgSetPrompt(p)
    \/ \E c \in ImageCounts : SetImageCount(c)
    \/ \E m \in ModelNames : OnSelectModel(m)
    \/ IgHandleGenerate
    \/ \E r \in 1..MaxRequests :
          \/ \E updated \in BOOLEAN : StatusAnswered(r, updated)
          \/ StatusResolved(r)
          \/ GenCreateReturned(r)
          \/ \E message \in CreateErrors : GenCreateThrew(r, message)
    \/ \E b \in 1..MaxRequests : IgBatchSettled(b)

\* ------------------------------------------------------- editor specification
\* the history the backend holds when the editor mounts
OldSessionRow ==
    [id |-> DbSessionId(1), user_id |-> "u1", original_url |-> <<"http-old", 1>>,
     created_at |-> 1]
OldVersionRow ==
    [id |-> DbVersionId(1), session_id |-> DbSessionId(1),
     url |-> <<"http-old", 2>>, prompt |-> "p", created_at |-> 2]

\* the component as useState leaves it, its loadSessions effect started
EditorMounted ==
    /\ uploadedImage = NoImage
    /\ generatedImage = NoImage
    /\ prompt = ""
    /\ selectedModel = "Nano Banana Pro"
    /\ isGenerating = FALSE
    /\ safetyWarning = FALSE
    /\ currentSessionId = NULL
    /\ sessions = <<>>
    /\ gens = [k \in 1..MaxGen |-> IdleGen]
    /\ nextGen = 0
    /\ loadState = "pending"
    /\ loadData = <<>>
    /\ queryFailed = FALSE
    /\ lastOutcome = "none"
    /\ lastError = NoError

EditorInit ==
    /\ EditorMounted
    /\ dbSessions = <<OldSessionRow>>
    /\ dbVersions = <<OldVersionRow>>
    /\ storedUser = User("u1", "ana")

Init == EditorInit /\ EdgeInit /\ DashInit /\ AppInit /\ UrlIdle /\ GenIdle

EditorNext ==
    \/ \E img \in UploadImages : StartNewSession(img)
    \/ \E p \in Prompts : SetPrompt(p)
    \/ \E m \in ModelNames : SelectModel(m)
    \/ DismissWarning
    \/ \E i \in 1..Len(sessions) : RestoreSession(i)
    \/ \E j \in 1..MaxGen + 1 : RestoreVersion(j)
    \/ ShowOriginal
    \/ ResetEditor
    \/ LoadSessionsQuery
    \/ LoadSessionsResolve
    \/ HandleGenerate
    \/ \E k \in 1..MaxGen :
          \/ FetchSourceDone(k)
          \/ FetchSourceFailed(k)
          \/ UploadReferenceDone(k)
          \/ CreateProjectDone(k)
          \/ CreateProjectFailed(k)
          \/ ImageLoaded(k)
          \/ ImageLoadFailed(k)
          \/ CreateSessionDone(k)
          \/ CreateSessionFailed(k)
          \/ AddVersionDone(k)
          \/ AddVersionFailed(k)

Spec == Init /\ [][EditorNext]_vars

\* ------------------------------------------------- the other specifications
\* getSessions over every small history: tables of at most MaxHistRows rows
\* each, in the order of their insertion, created_at from Stamps (the
\* same instant allowed twice), a version belonging to a session that exists
Stamps == {1, 2}

SessionRows(n) ==
    [id : {DbSessionId(n)}, user_id : UserIds, original_url : {<<"http-old", n>>},
     created_at : Stamps]

VersionRows(n, sessionCount) ==
    [id : {DbVersionId(n)}, session_id : {DbSessionId(i) : i \in 1..sessionCount},
     url : {<<"http-gen", n>>}, prompt : {"p"}, created_at : Stamps]

RECURSIVE SessionTables(_)
SessionTables(n) ==
    IF n = 0 THEN {<<>>}
    ELSE LET shorter == SessionTables(n - 1)
         IN  shorter \cup {Append(t, row) : t \in {u \in shorter : Len(u) = n - 1},
                                            row \in SessionRows(n)}

RECURSIVE VersionTables(_, _)
VersionTables(n, sessionCount) ==
    IF n = 0 THEN {<<>>}
    ELSE LET shorter == VersionTables(n - 1, sessionCount)
         IN  shorter \cup {Append(t, row) : t \in {u \in shorter : Len(u) = n - 1},
                                            row \in VersionRows(n, sessionCount)}

HistInit ==
    /\ EditorMounted
    /\ storedUser \in {NoUser, User("u1", "ana"), User("u2", "bo")}
    /\ dbSessions \in SessionTables(MaxHistRows)
    /\ dbVersions \in VersionTables(MaxHistRows, Len(dbSessions))
    /\ EdgeInit /\ DashInit /\ AppInit /\ UrlIdle /\ GenIdle

HistNext == LoadSessionsQuery \/ LoadSessionsResolve

HistSpec == HistInit /\ [][HistNext]_vars

EdgeSpec == Init /\ [][EdgeNext]_vars

DashSpec == Init /\ [][DashNext]_vars

\* App with or without a user left in localStorage by an earlier visit
AppSpecInit ==
    /\ EditorMounted
    /\ dbSessions = <<OldSessionRow>>
    /\ dbVersions = <<OldVersionRow>>
    /\ storedUser \in {NoUser, User("u1", "ana")}
    /\ EdgeInit /\ DashInit /\ AppInit /\ UrlIdle /\ GenIdle

AppSpec == AppSpecInit /\ [][AppNext]_vars

UrlSpecInit == EditorInit /\ EdgeInit /\ DashInit /\ AppInit /\ UrlInit /\ GenIdle

UrlSpec == UrlSpecInit /\ [][UrlNext]_vars

\* the generate view of a mounted App, with a user logged in or nobody
GenInit ==
    /\ EditorMounted
    /\ dbSessions = <<OldSessionRow>>
    /\ dbVersions = <<OldVersionRow>>
    /\ storedUser \in {NoUser, User("u1", "ana")}
    /\ EdgeInit /\ DashInit /\ UrlIdle /\ GenIdle
    /\ currentUser = storedUser
    /\ currentView = "generate"
    /\ isAuthModalOpen = FALSE
    /\ isSettingsOpen = FALSE
    /\ logoutPending = FALSE
    /\ loginPending = NoLogin
    /\ profileUpdate = NoProfileUpdate
    /\ appMounted = TRUE
    /\ dbUserNames = [id \in UserIds |-> IF id = "u1" THEN "ana" ELSE "bo"]

GenSpec == GenInit /\ [][GenNext]_vars

\* ------------------------------------------------------------ history claim
\* the rows of a table as a set
Rows(tbl) == {tbl[i] : i \in 1..Len(tbl)}

\* the sessions of user that have at least one version
SessionsWithVersions(user) ==
    {s \in Rows(dbSessions) :
        /\ s.user_id = user.id
        /\ \E v \in Rows(dbVersions) : v.session_id = s.id}

\* result holds each of these sessions once, newest first, with the fields
\* of its row
ExactSessions(result, user) ==
    /\ {result[i].id : i \in 1..Len(result)}
           = {s.id : s \in SessionsWithVersions(user)}
    /\ Len(result) = Cardinality(SessionsWithVersions(user))
    /\ \A i \in 1..Len(result) :
          \E s \in SessionsWithVersions(user) :
              /\ result[i].id = s.id
              /\ result[i].originalUrl = s.original_url
              /\ result[i].timestamp = s.created_at
              /\ result[i].userId = user.id
    /\ \A i, j \in 1..Len(result) :
          i < j => result[i].timestamp >= result[j].timestamp

\* a session of the result carries each version of its session_id once,
\* oldest first, and no other
ExactVersions(session) ==
    LET mine == {v \in Rows(dbVersions) : v.session_id = session.id}
        vs == session.versions
    IN  /\ {vs[i].id : i \in 1..Len(vs)} = {v.id : v \in mine}
        /\ Len(vs) = Cardinality(mine)
        /\ \A i \in 1..Len(vs) :
              \E v \in mine :
                  /\ vs[i].id = v.id
                  /\ vs[i].url = v.url
                  /\ vs[i].prompt = v.prompt
                  /\ vs[i].timestamp = v.created_at
        /\ \A i, j \in 1..Len(vs) : i < j => vs[i].timestamp <= vs[j].timestamp

\* what the description of getSessions promises of a result
ExactHistory(result) ==
    IF storedUser = NoUser THEN result = <<>>
    ELSE /\ ExactSessions(result, storedUser)
         /\ \A i \in 1..Len(result) : ExactVersions(result[i])

\* C3 as stated: whatever getSessions returns is exactly the stored user's
\* sessions that have a version, newest first, each with all and only its
\* versions, oldest first, and the empty list without a stored user.
C3_GetSessionsExact ==
    loadState = "fetched" => ExactHistory(loadData)

\* C3 amended: that holds of every call whose two queries both succeed; a
\* call of which a query fails returns the empty list.
C3_GetSessionsExactWhenQueriesSucceed ==
    loadState = "fetched" =>
        IF queryFailed THEN loadData = <<>> ELSE ExactHistory(loadData)

\* C3 witness: two queries succeeded on a history where the user has a
\* session with two versions stored out of order, next to a session that is
\* left out.
C3_Witness ==
    /\ loadState = "fetched"
    /\ ~queryFailed
    /\ Len(dbSessions) = 2
    /\ Len(loadData) = 1
    /\ Len(loadData[1].versions) = 2
    /\ dbVersions[1].created_at > dbVersions[2].created_at

\* ------------------------------------------------------------- editor claims
\* generation k finishes in this step by the return of addVersion
Completes(k) == gens[k].pc = "addVersion" /\ gens'[k].pc = "done"

\* generation k ends in this step in the catch block
Fails(k) ==
    gens[k].pc \in {"fetchSource", "create", "imgLoad"} /\ gens'[k].pc = "done"

\* createSession / addVersion is called in this step by generation k
CallsCreateSession(k) ==
    gens[k].pc # "createSession" /\ gens'[k].pc = "createSession"
CallsAddVersion(k) == gens[k].pc # "addVersion" /\ gens'[k].pc = "addVersion"

SessionIdsOf(ss) == {ss[i].id : i \in 1..Len(ss)}
VersionIdsOf(ss) ==
    UNION {{ss[i].versions[j].id : j \in 1..Len(ss[i].versions)} : i \in 1..Len(ss)}

\* C1: when a generation that started without a current session completes
\* and both createSession and addVersion succeeded, the local list holds the
\* session once, under the backend's id, with exactly one version carrying the
\* backend's version id; currentSessionId is that id; the generation's
\* temporary id is no session id and no version id of the list any more.
C1_ReconciledOnCompletion ==
    [][\A k \in 1..MaxGen :
          ( /\ Completes(k)
            /\ lastOutcome' = "saved"
            /\ gens[k].sessionId = NULL
            /\ ~IsTemp(gens[k].activeSessionId) )
          => LET sid == gens[k].activeSessionId
                 vid == dbVersions'[Len(dbVersions')].id
             IN  /\ Cardinality({i \in 1..Len(sessions') : sessions'[i].id = sid}) = 1
                 /\ \A i \in 1..Len(sessions') :
                       sessions'[i].id = sid =>
                          /\ Len(sessions'[i].versions) = 1
                          /\ sessions'[i].versions[1].id = vid
                 /\ currentSessionId' = sid
                 /\ TempId(k) \notin SessionIdsOf(sessions')
                 /\ TempId(k) \notin VersionIdsOf(sessions')]_vars

\* version w is version v, or the persisted copy of the temporary version v
Reconciles(v, w) ==
    \/ w = v
    \/ /\ IsTemp(v.id)
       /\ ~IsTemp(w.id)
       /\ w.url = v.url
       /\ w.prompt = v.prompt

\* list ws is list vs with temporary entries possibly replaced in place and
\* at most one version appended at the end
KeepsVersions(vs, ws) ==
    /\ Len(ws) \in {Len(vs), Len(vs) + 1}
    /\ \A j \in 1..Len(vs) : Reconciles(vs[j], ws[j])

\* the versions generated in this mount are listed in generation order
GenerationOrder ==
    \A i \in 1..Len(sessions) :
       \A a, b \in 1..Len(sessions[i].versions) :
          LET u == sessions[i].versions[a].url
              w == sessions[i].versions[b].url
          IN  (a < b /\ u[1] = "http-gen" /\ w[1] = "http-gen") => u[2] < w[2]

\* C2: every session's version list is append-only and in generation order:
\* no step removes or reorders the versions of a session, a step changes a
\* list only by appending one version at its end or by replacing a temporary
\* entry in place by its persisted copy, and a step of restoreSession,
\* restoreVersion, resetEditor or startNewSession leaves every list as it is.
C2_VersionsAppendOnly ==
    /\ [][ /\ \A i \in 1..Len(sessions) :
                /\ Len(sessions[i].versions) > 0 =>
                      sessions[i].id \in SessionIdsOf(sessions')
                /\ \A j \in 1..Len(sessions') :
                      sessions'[j].id = sessions[i].id =>
                         KeepsVersions(sessions[i].versions, sessions'[j].versions)
           /\ (gens' = gens /\ loadState' = loadState) => sessions' = sessions
         ]_vars
    /\ []GenerationOrder

\* C8: createSession is called only by a generation whose image has been
\* generated and loaded, only when no session is current, and before that
\* generation's addVersion; no other step creates a session in the backend.
C8_SessionCreatedLazily ==
    [][ /\ \A k \in 1..MaxGen :
             /\ CallsCreateSession(k) =>
                   /\ gens[k].pc = "imgLoad"
                   /\ generatedImage' = GeneratedUrl(k)
                   /\ currentSessionId = NULL
             /\ (CallsAddVersion(k) /\ gens[k].sessionId = NULL) =>
                   gens[k].pc = "createSession"
        /\ dbSessions' # dbSessions =>
              \E k \in 1..MaxGen : gens[k].pc = "createSession"
      ]_vars

\* C9: at most one generation is in flight; isGenerating is true exactly
\* while one is; a generation in flight was started with an image loaded and
\* a non-blank prompt.
C9_OneGenerationInFlight ==
    /\ Cardinality({k \in 1..MaxGen : InFlight(k)}) <= 1
    /\ isGenerating <=> (\E k \in 1..MaxGen : InFlight(k))
    /\ \A k \in 1..MaxGen :
          InFlight(k) => /\ gens[k].uploadedImage # NoImage
                         /\ Trim(gens[k].prompt) # ""

\* C9 witness: a generation is in flight while the image and the prompt would
\* let another one start
C9_Witness ==
    /\ isGenerating
    /\ \E k \in 1..MaxGen : InFlight(k)
    /\ uploadedImage # NoImage
    /\ Trim(prompt) # ""
    /\ nextGen < MaxGen

\* C10: no step of a generation up to and including its failure changes the
\* session list, currentSessionId, uploadedImage, generatedImage or the
\* backend's sessions and versions, and the failing step sets isGenerating
\* to false.
C10_FailureLeavesStateAlone ==
    [][\A k \in 1..MaxGen :
          /\ ( /\ gens'[k] # gens[k]
               /\ \/ gens'[k].pc \in {"fetchSource", "uploadRef", "create", "imgLoad"}
                  \/ Fails(k) )
             => UNCHANGED <<sessions, currentSessionId, uploadedImage,
                            generatedImage, dbSessions, dbVersions>>
          /\ Fails(k) => isGenerating' = FALSE]_vars

\* C10 witness: a generation has failed after sessions had been loaded
C10_Witness ==
    /\ lastOutcome \in {"alert", "safety"}
    /\ ~isGenerating
    /\ sessions # <<>>
    /\ currentSessionId # NULL

\* what the claim says a failure with this message shows, for the model the
\* failed generation was started with
ContainsAny(message, parts) == \E part \in parts : Includes(message, part)
SafetyWarningDue(message, model) ==
    \/ ContainsAny(message, {"SAFETY_VIOLATION", "safety", "blocked"})
    \/ /\ Includes(model, "Nano Banana")
       /\ ContainsAny(message, {"FunctionsHttpError", "Edge Function returned",
                                "non-2xx"})

\* generation k starts in this step
Starts(k) == gens[k].pc = "idle" /\ gens'[k].pc # "idle"

\* C11: the step in which a generation fails leaves the safety warning shown
\* if the caught message contains 'SAFETY_VIOLATION', 'safety' or 'blocked',
\* or the generation's model contains 'Nano Banana' and the message contains
\* 'FunctionsHttpError', 'Edge Function returned' or 'non-2xx'; otherwise it
\* leaves the warning hidden and shows the generic failure alert. The warning
\* is hidden after the step that starts a generation and after an edit of
\* the prompt.
C11_SafetyWarningOnFailure ==
    [][/\ \A k \in 1..MaxGen :
            /\ Fails(k) =>
                 IF SafetyWarningDue(lastError', gens[k].model)
                 THEN safetyWarning' /\ lastOutcome' = "safety"
                 ELSE ~safetyWarning' /\ lastOutcome' = "alert"
            /\ Starts(k) => ~safetyWarning'
       /\ (\E p \in Prompts : SetPrompt(p)) => ~safetyWarning']_vars

\* C11 witness: a generation made with a Nano Banana model failed with the
\* generic edge-function error and the warning is shown
C11_Witness ==
    /\ safetyWarning
    /\ lastOutcome = "safety"
    /\ lastError = "Edge Function returned a non-2xx status code"
    /\ ~isGenerating

\* ------------------------------------------------------ edge function claim
\* requests answered with an imageUrl, and deductions made, so far
RECURSIVE CountResponses(_, _)
CountResponses(r, kind) ==
    IF r = 0 THEN 0
    ELSE (IF edgeReq[r].response = kind THEN 1 ELSE 0) + CountResponses(r - 1, kind)

RECURSIVE CountDeductions(_)
CountDeductions(r) ==
    IF r = 0 THEN 0 ELSE edgeReq[r].deducted + CountDeductions(r - 1)

\* C4: a request answered with an imageUrl has deducted exactly one credit,
\* after its image was stored; a request answered with an error has deducted
\* none; the deductions made are as many as the imageUrl answers, and the
\* wallet is lower by that many credits.
C4_OneCreditPerImage ==
    /\ \A r \in 1..MaxReq :
          /\ edgeReq[r].response = "imageUrl" =>
                 edgeReq[r].deducted = 1 /\ edgeReq[r].stored
          /\ edgeReq[r].response = "error" => edgeReq[r].deducted = 0
          /\ edgeReq[r].deducted > 0 => edgeReq[r].stored
    /\ CountDeductions(MaxReq) = CountResponses(MaxReq, "imageUrl")
    /\ teamBalance = StartBalance - CountResponses(MaxReq, "imageUrl")

\* -------------------------------------------------------- dashboard claim
\* C5: once a numeric event was delivered to the mounted dashboard, the
\* credits it shows are the balance of the last delivered event, and the
\* resolution of the initial getBalance leaves a delivered value in place.
C5_CreditsFollowSubscription ==
    /\ [](dashMounted /\ lastEvent # NoEvent => credits = lastEvent[1])
    /\ [][balanceFetch.state = "read" /\ balanceFetch'.state = "done"
            /\ lastEvent # NoEvent
          => credits' = credits]_vars

\* ------------------------------------------------------------- App claim
\* C6: with no logged-in user (currentUser null) the team, usage, edit and
\* projects views show AccessRestricted, and the Sidebar is not shown.
C6_RestrictedWithoutUser ==
    currentUser = NoUser =>
        /\ currentView \in {"team", "usage", "edit", "projects"} =>
               MainRenders = "AccessRestricted"
        /\ ~SidebarShown

\* C6 witness: a user has logged in and signed out again (the logout is
\* still running) and has gone to the projects view afterwards.
C6_Witness ==
    /\ currentUser = NoUser
    /\ logoutPending
    /\ storedUser = User("u2", "bo")
    /\ currentView = "projects"
    /\ MainRenders = "AccessRestricted"

\* ------------------------------------------------------- optimizer claim
RoundTrips(url) == ~StartsWith(url, Spell("data:")) /\ ~StartsWith(url, Spell("blob:"))

\* C7: for a non-empty URL that starts with neither data: nor blob:,
\* getOriginalImageUrl of its optimized URL is the URL again; a data: or
\* blob: URL is optimized to itself; the empty string is mapped to the
\* empty string by both functions.
C7_OriginalOfOptimized ==
    /\ urlPc = "restored" /\ urlIn # <<>> /\ RoundTrips(urlIn) => urlBack = urlIn
    /\ urlPc # "input" /\ ~RoundTrips(urlIn) => urlOut = urlIn
    /\ urlPc # "input" /\ urlIn = <<>> => urlOut = <<>>
    /\ urlPc = "restored" /\ urlIn = <<>> => urlBack = <<>>

\* C7 witness: the original of an optimized URL was asked for, the URL
\* holding a "&", a "+" and a "%" that the query string has to carry.
C7_Witness ==
    /\ urlPc = "restored"
    /\ urlIn = <<"&", "+", "%">>
    /\ urlWidth = 40
    /\ StartsWith(urlOut, Spell("https://wsrv.nl/"))
    /\ UrlIncludes(urlOut, <<"%", "2", "6", "%", "2", "B", "%", "2", "5", "&", "w", "=", "4", "0">>)

\* ------------------------------------------------ generator and status claims
\* Promise.all of batch b settles in this step
Settles(b) == b \notin settled /\ b \in settled'

\* C12: in the step in which handleGenerate of the generator gets the results
\* of its requests, made by a logged-in user, the safety warning is shown if
\* ProjectsService.create threw a 'SAFETY_VIOLATION' error for one of them.
C12_SafetyWarningAfterViolation ==
    [][\A b \in 1..MaxRequests :
          ( /\ Settles(b)
            /\ IsLoggedIn
            /\ \E r \in BatchOf(b) : Includes(reqs[r].error, "SAFETY_VIOLATION") )
          => igSafetyWarning']_vars

\* request r calls ProjectsService.create / resolves in this step
GenCallsCreate(r) == reqs[r].pc # "create" /\ reqs'[r].pc = "create"
GenReturns(r) == reqs[r].pc = "updateStatus" /\ reqs'[r].pc = "done"

\* some request was made and every request made has finished
AllRequestsFinished ==
    /\ nextReq > 0
    /\ \A r \in 1..MaxRequests : reqs[r].pc \in {"idle", "done"}

\* C13: a request has stored 'generating' in the users table when it calls
\* ProjectsService.create and has stored 'online' when it resolves; whenever
\* every request made has finished, the user's status in the table is
\* 'online'.
C13_StatusOnlineWhenFinished ==
    /\ [](AllRequestsFinished => userStatus = "online")
    /\ [][\A r \in 1..MaxRequests :
             /\ GenCallsCreate(r) => "generating" \in reqs[r].wrote
             /\ GenReturns(r) => "online" \in reqs[r].wrote]_vars

\* C14: while ProjectsService.create is running for some request whose
\* 'generating' update the users table has taken, the user's status in the
\* table is 'generating'.
C14_GeneratingWhileInFlight ==
    (\E r \in 1..MaxRequests :
        reqs[r].pc = "create" /\ "generating" \in reqs[r].wrote)
    => userStatus = "generating"

====
